---- MODULE Spec2Model ----
(***************************************************************************)
(* A model of gst-client: the GstClient transport client                   *)
(* (src/src/client.rs) and the serde data model of the GStreamer Daemon    *)
(* response envelope (src/src/gstd_types.rs).                              *)
(*                                                                         *)
(* JSON text is modelled by its parsed value.  A JSON value is a record    *)
(* tagged by its wire type t:                                              *)
(*   [t |-> "null"]                                                        *)
(*   [t |-> "bool",  b |-> BOOLEAN]                                        *)
(*   [t |-> "int",   w |-> width class, n |-> value]                       *)
(*   [t |-> "float"]                                                       *)
(*   [t |-> "str",   s |-> STRING]                                         *)
(*   [t |-> "arr",   a |-> sequence of JSON values]                        *)
(*   [t |-> "obj",   o |-> function from the keys present to JSON values]  *)
(* An integer literal carries the class of its magnitude, since 2^63 is    *)
(* beyond what the model checker's integers hold:                          *)
(*   w = "i64"  the literal lies in -2^63 .. 2^63-1 and n is its value;    *)
(*   w = "u64"  it lies in 2^63 .. 2^64-1 (serde_json reads it as a u64);  *)
(*   w = "big"  it lies outside both (serde_json reads it as an f64).      *)
(***************************************************************************)
EXTENDS Integers, Sequences, FiniteSets, TLC

(***************************************************************************)
(* Results of deserialization.                                             *)
(***************************************************************************)
DeErr == [ok |-> FALSE]
DeOk(x) == [ok |-> TRUE, v |-> x]

(***************************************************************************)
(* A derived struct deserializes from a JSON object (fields by key,        *)
(* unknown keys ignored) or from a JSON array (fields by position, no      *)
(* element beyond the struct's n fields).                                  *)
(***************************************************************************)
IsStructShape(v, n) ==
    \/ v.t = "obj"
    \/ v.t = "arr" /\ Len(v.a) <= n

HasField(v, key, idx) ==
    IF v.t = "obj" THEN key \in DOMAIN v.o ELSE idx <= Len(v.a)

Field(v, key, idx) ==
    IF v.t = "obj" THEN v.o[key] ELSE v.a[idx]

\* String
DeString(v) ==
    IF v.t = "str" THEN DeOk(v.s) ELSE DeErr

\* i64: an integer literal within the signed 64-bit range; never a float
DeI64(v) ==
    IF v.t = "int" /\ v.w = "i64" THEN DeOk(v.n) ELSE DeErr

\* bool
DeBool(v) ==
    IF v.t = "bool" THEN DeOk(v.b) ELSE DeErr

\* u8, the repr of ResponseCode
DeU8(v) ==
    IF v.t = "int" /\ v.w = "i64" /\ v.n >= 0 /\ v.n <= 255
    THEN DeOk(v.n) ELSE DeErr

(***************************************************************************)
(* ResponseCode: the discriminants of the enum.                            *)
(***************************************************************************)
Success == 0
MissingName == 18
ResponseCode == Success .. MissingName

\* a faulty variant of DeResponseCode: the u8 is taken as the code unchecked
DeResponseCodeAnyU8(v) ==
    DeU8(v)

\* Deserialize_repr: read a u8, then match it against the discriminants
DeResponseCode(v) ==
    IF DeU8(v).ok /\ DeU8(v).v \in ResponseCode THEN DeOk(DeU8(v).v) ELSE DeErr

\* struct Param { description, type, access }
DeParam(v) ==
    IF /\ IsStructShape(v, 3)
       /\ HasField(v, "description", 1) /\ DeString(Field(v, "description", 1)).ok
       /\ HasField(v, "type", 2) /\ DeString(Field(v, "type", 2)).ok
       /\ HasField(v, "access", 3) /\ DeString(Field(v, "access", 3)).ok
    THEN DeOk([description |-> DeString(Field(v, "description", 1)).v,
               type |-> DeString(Field(v, "type", 2)).v,
               access |-> DeString(Field(v, "access", 3)).v])
    ELSE DeErr

\* a faulty variant of DePropertyValue: the integer variant also takes a boolean
\* (as 0 or 1) and is tried before Bool
DePropertyValueLoose(v) ==
    IF DeString(v).ok THEN DeOk([variant |-> "String", s |-> DeString(v).v])
    ELSE IF DeI64(v).ok THEN DeOk([variant |-> "Integer", n |-> DeI64(v).v])
    ELSE IF DeBool(v).ok
         THEN DeOk([variant |-> "Integer", n |-> IF DeBool(v).v THEN 1 ELSE 0])
    ELSE DeErr

\* untagged enum PropertyValue { String(String), Integer(i64), Bool(bool) }
DePropertyValue(v) ==
    IF DeString(v).ok THEN DeOk([variant |-> "String", s |-> DeString(v).v])
    ELSE IF DeI64(v).ok THEN DeOk([variant |-> "Integer", n |-> DeI64(v).v])
    ELSE IF DeBool(v).ok THEN DeOk([variant |-> "Bool", b |-> DeBool(v).v])
    ELSE DeErr

\* struct Property { name, value, param }
DeProperty(v) ==
    IF /\ IsStructShape(v, 3)
       /\ HasField(v, "name", 1) /\ DeString(Field(v, "name", 1)).ok
       /\ HasField(v, "value", 2) /\ DePropertyValue(Field(v, "value", 2)).ok
       /\ HasField(v, "param", 3) /\ DeParam(Field(v, "param", 3)).ok
    THEN DeOk([name |-> DeString(Field(v, "name", 1)).v,
               value |-> DePropertyValue(Field(v, "value", 2)).v,
               param |-> DeParam(Field(v, "param", 3)).v])
    ELSE DeErr

\* struct Node { name }
DeNode(v) ==
    IF /\ IsStructShape(v, 1)
       /\ HasField(v, "name", 1) /\ DeString(Field(v, "name", 1)).ok
    THEN DeOk([name |-> DeString(Field(v, "name", 1)).v])
    ELSE DeErr

\* Vec<Property>
DeVecProperty(v) ==
    IF v.t = "arr" /\ \A i \in 1..Len(v.a) : DeProperty(v.a[i]).ok
    THEN DeOk([i \in 1..Len(v.a) |-> DeProperty(v.a[i]).v])
    ELSE DeErr

\* Vec<Node>
DeVecNode(v) ==
    IF v.t = "arr" /\ \A i \in 1..Len(v.a) : DeNode(v.a[i]).ok
    THEN DeOk([i \in 1..Len(v.a) |-> DeNode(v.a[i]).v])
    ELSE DeErr

\* a faulty variant of DeProperties: `nodes` without #[serde(default)] and the
\* decoded list built back to front
DePropertiesNoDefault(v) ==
    IF /\ IsStructShape(v, 2)
       /\ HasField(v, "properties", 1) /\ DeVecProperty(Field(v, "properties", 1)).ok
       /\ HasField(v, "nodes", 2) /\ DeVecNode(Field(v, "nodes", 2)).ok
    THEN LET ns == DeVecNode(Field(v, "nodes", 2)).v
         IN  DeOk([properties |-> DeVecProperty(Field(v, "properties", 1)).v,
                   nodes |-> [i \in 1..Len(ns) |-> ns[Len(ns) + 1 - i]]])
    ELSE DeErr

\* struct Properties { properties, #[serde(default)] nodes }
DeProperties(v) ==
    IF /\ IsStructShape(v, 2)
       /\ HasField(v, "properties", 1) /\ DeVecProperty(Field(v, "properties", 1)).ok
       /\ (HasField(v, "nodes", 2) => DeVecNode(Field(v, "nodes", 2)).ok)
    THEN DeOk([properties |-> DeVecProperty(Field(v, "properties", 1)).v,
               nodes |-> IF HasField(v, "nodes", 2)
                         THEN DeVecNode(Field(v, "nodes", 2)).v
                         ELSE <<>>])
    ELSE DeErr

\* struct Bus { type, source, timestamp, seqnum, message, debug }
DeBus(v) ==
    IF /\ IsStructShape(v, 6)
       /\ HasField(v, "type", 1) /\ DeString(Field(v, "type", 1)).ok
       /\ HasField(v, "source", 2) /\ DeString(Field(v, "source", 2)).ok
       /\ HasField(v, "timestamp", 3) /\ DeString(Field(v, "timestamp", 3)).ok
       /\ HasField(v, "seqnum", 4) /\ DeI64(Field(v, "seqnum", 4)).ok
       /\ HasField(v, "message", 5) /\ DeString(Field(v, "message", 5)).ok
       /\ HasField(v, "debug", 6) /\ DeString(Field(v, "debug", 6)).ok
    THEN DeOk([type |-> DeString(Field(v, "type", 1)).v,
               source |-> DeString(Field(v, "source", 2)).v,
               timestamp |-> DeString(Field(v, "timestamp", 3)).v,
               seqnum |-> DeI64(Field(v, "seqnum", 4)).v,
               message |-> DeString(Field(v, "message", 5)).v,
               debug |-> DeString(Field(v, "debug", 6)).v])
    ELSE DeErr

\* Option<Bus>: null is None, anything else must be a Bus
DeOptionBus(v) ==
    IF v.t = "null" THEN DeOk([some |-> FALSE])
    ELSE IF DeBus(v).ok THEN DeOk([some |-> TRUE, bus |-> DeBus(v).v])
    ELSE DeErr

\* a faulty variant of DeResponseT: the variants declared Properties, Property, Bus
DeResponseTReordered(v) ==
    IF DeProperties(v).ok
    THEN DeOk([variant |-> "Properties", props |-> DeProperties(v).v])
    ELSE IF DeProperty(v).ok
    THEN DeOk([variant |-> "Property", prop |-> DeProperty(v).v])
    ELSE IF DeOptionBus(v).ok
    THEN DeOk([variant |-> "Bus", bus |-> DeOptionBus(v).v])
    ELSE DeErr

\* untagged enum ResponseT { Bus(Option<Bus>), Properties, Property }
DeResponseT(v) ==
    IF DeOptionBus(v).ok
    THEN DeOk([variant |-> "Bus", bus |-> DeOptionBus(v).v])
    ELSE IF DeProperties(v).ok
    THEN DeOk([variant |-> "Properties", props |-> DeProperties(v).v])
    ELSE IF DeProperty(v).ok
    THEN DeOk([variant |-> "Property", prop |-> DeProperty(v).v])
    ELSE DeErr

\* struct Response { code, description, response }
DeResponse(v) ==
    IF /\ IsStructShape(v, 3)
       /\ HasField(v, "code", 1) /\ DeResponseCode(Field(v, "code", 1)).ok
       /\ HasField(v, "description", 2) /\ DeString(Field(v, "description", 2)).ok
       /\ HasField(v, "response", 3) /\ DeResponseT(Field(v, "response", 3)).ok
    THEN DeOk([code |-> DeResponseCode(Field(v, "code", 1)).v,
               description |-> DeString(Field(v, "description", 2)).v,
               response |-> DeResponseT(Field(v, "response", 3)).v])
    ELSE DeErr

(***************************************************************************)
(* process_resp and its results.  A raw response is                        *)
(* [fail |-> FALSE, status |-> HTTP status, body |-> body]; a body is      *)
(* [json |-> FALSE] (text that is no JSON document) or                     *)
(* [json |-> TRUE, val |-> the parsed JSON value].                         *)
(***************************************************************************)
Ok(env) == [ok |-> TRUE, env |-> env]
OkRaw(resp) == [ok |-> TRUE, raw |-> resp]
Err(kind) == [ok |-> FALSE, err |-> kind]
BadStatus(status) == [ok |-> FALSE, err |-> "BadStatus", status |-> status]
GstdError(code) == [ok |-> FALSE, err |-> "GstdError", code |-> code]

\* StatusCode::is_success
IsSuccess(status) == status >= 200 /\ status < 300

\* Response::json::<gstd_types::Response>()
Json(body) ==
    IF body.json THEN DeResponse(body.val) ELSE DeErr

\* a faulty variant of ProcessResp: the code of the envelope is never looked at
ProcessRespNoCodeCheck(resp) ==
    IF ~IsSuccess(resp.status) THEN BadStatus(resp.status)
    ELSE IF ~Json(resp.body).ok THEN Err("BadBody")
    ELSE Ok(Json(resp.body).v)

\* a faulty variant of ProcessResp: the body is parsed before the status is looked at
ProcessRespParseFirst(resp) ==
    IF ~Json(resp.body).ok THEN Err("BadBody")
    ELSE IF ~IsSuccess(resp.status) THEN BadStatus(resp.status)
    ELSE IF Json(resp.body).v.code # Success THEN GstdError(Json(resp.body).v.code)
    ELSE Ok(Json(resp.body).v)

\* a faulty variant of ProcessResp: the code is looked at in the raw body, before the
\* payload is decoded, and passed on as it is
ProcessRespCodeFirst(resp) ==
    IF ~IsSuccess(resp.status) THEN BadStatus(resp.status)
    ELSE IF /\ resp.body.json
            /\ IsStructShape(resp.body.val, 3)
            /\ HasField(resp.body.val, "code", 1)
            /\ DeU8(Field(resp.body.val, "code", 1)).ok
            /\ DeU8(Field(resp.body.val, "code", 1)).v # Success
         THEN GstdError(DeU8(Field(resp.body.val, "code", 1)).v)
    ELSE IF ~Json(resp.body).ok THEN Err("BadBody")
    ELSE Ok(Json(resp.body).v)

\* GstClient::process_resp
ProcessResp(resp) ==
    IF ~IsSuccess(resp.status) THEN BadStatus(resp.status)
    ELSE IF ~Json(resp.body).ok THEN Err("BadBody")
    ELSE IF Json(resp.body).v.code # Success THEN GstdError(Json(resp.body).v.code)
    ELSE Ok(Json(resp.body).v)

(***************************************************************************)
(* URLs.  A URL string is a sequence of lexical tokens: words (maximal     *)
(* runs of letters, digits, dots) and the delimiters ":", "//", "/".       *)
(* A parsed URL is [scheme, cab, host, port, path]: cab says it is a       *)
(* cannot-be-a-base URL, whose path is the opaque rest; otherwise path is  *)
(* the sequence of segments ("/" is the one empty segment).  Queries,      *)
(* fragments, credentials and dot segments are not modelled.               *)
(***************************************************************************)
AlphaWords == {"http", "HTTP", "mailto", "localhost", "LocalHost", "gstd",
               "api", "pipelines", "admin"}
DigitWords == {"80", "5000", "99999", "127.0.0.1"}
Words == AlphaWords \cup DigitWords

Lower(w) ==
    CASE w = "HTTP" -> "http"
      [] w = "LocalHost" -> "localhost"
      [] OTHER -> w

IsSpecial(scheme) == scheme = "http"
DefaultPort(scheme) == IF scheme = "http" THEN "80" ELSE ""

\* the number a port token writes; -1 when it is not a number
PortNumber(w) ==
    CASE w = "80" -> 80
      [] w = "5000" -> 5000
      [] w = "99999" -> 99999
      [] OTHER -> -1

IsValidPort(w) == PortNumber(w) >= 0 /\ PortNumber(w) <= 65535

UrlErr(kind) == [ok |-> FALSE, err |-> kind]
UrlOk(u) == [ok |-> TRUE, url |-> u]

\* the segments of a path written "/" seg "/" seg ...
RECURSIVE PathSegs(_)
PathSegs(toks) ==
    IF toks = <<>> THEN <<>>
    ELSE IF Len(toks) >= 2 /\ toks[2] # "/"
         THEN <<toks[2]>> \o PathSegs(SubSeq(toks, 3, Len(toks)))
         ELSE <<"">> \o PathSegs(Tail(toks))

\* the tokens of a path of segments
RECURSIVE PathToks(_)
PathToks(segs) ==
    IF segs = <<>> THEN <<>>
    ELSE (IF segs[1] = "" THEN <<"/">> ELSE <<"/", segs[1]>>) \o PathToks(Tail(segs))

HasScheme(s) == Len(s) >= 2 /\ s[1] \in AlphaWords /\ s[2] = ":"

\* what follows "scheme:"
UrlParseWithScheme(scheme, rest) ==
    IF IsSpecial(scheme) \/ (rest # <<>> /\ rest[1] \in {"//", "/"})
    THEN LET r1 == IF rest # <<>> /\ rest[1] = "//" THEN Tail(rest) ELSE rest
             hasHost == r1 # <<>> /\ r1[1] \in Words
                        /\ (IsSpecial(scheme) \/ (rest # <<>> /\ rest[1] = "//"))
             host == IF hasHost
                     THEN (IF IsSpecial(scheme) THEN Lower(r1[1]) ELSE r1[1])
                     ELSE ""
             r2 == IF hasHost THEN Tail(r1) ELSE r1
             hasColon == hasHost /\ r2 # <<>> /\ r2[1] = ":"
             hasPort == hasColon /\ Len(r2) >= 2 /\ r2[2] # "/"
             portTok == IF hasPort THEN r2[2] ELSE ""
             r3 == IF hasPort THEN SubSeq(r2, 3, Len(r2))
                   ELSE IF hasColon THEN Tail(r2) ELSE r2
         IN  IF IsSpecial(scheme) /\ ~hasHost THEN UrlErr("EmptyHost")
             ELSE IF hasPort /\ ~IsValidPort(portTok) THEN UrlErr("InvalidPort")
             ELSE UrlOk([scheme |-> scheme, cab |-> FALSE, host |-> host,
                         port |-> IF hasPort /\ portTok # DefaultPort(scheme)
                                  THEN portTok ELSE "",
                         path |-> IF r3 = <<>> /\ IsSpecial(scheme)
                                  THEN <<"">> ELSE PathSegs(r3)])
    ELSE UrlOk([scheme |-> scheme, cab |-> TRUE, host |-> "", port |-> "",
                path |-> rest])

\* Url::parse
UrlParse(s) ==
    IF HasScheme(s)
    THEN UrlParseWithScheme(Lower(s[1]), SubSeq(s, 3, Len(s)))
    ELSE UrlErr("RelativeUrlWithoutBase")

\* Url::join
UrlJoin(base, rel) ==
    IF HasScheme(rel) THEN UrlParse(rel)
    ELSE IF base.cab THEN UrlErr("RelativeUrlWithCannotBeABaseBase")
    ELSE IF rel = <<>> THEN UrlOk(base)
    ELSE IF rel[1] = "//" THEN UrlParseWithScheme(base.scheme, rel)
    ELSE IF rel[1] = "/" THEN UrlOk([base EXCEPT !.path = PathSegs(rel)])
    ELSE UrlOk([base EXCEPT !.path = SubSeq(base.path, 1, Len(base.path) - 1)
                                     \o PathSegs(<<"/">> \o rel)])

\* Url's serialization (Display, as_str)
UrlToString(u) ==
    IF u.cab THEN <<u.scheme, ":">> \o u.path
    ELSE <<u.scheme, ":">>
         \o (IF u.host # "" THEN <<"//", u.host>> ELSE <<>>)
         \o (IF u.port # "" THEN <<":", u.port>> ELSE <<>>)
         \o PathToks(u.path)

(***************************************************************************)
(* The inputs: base address strings, request paths, responses.             *)
(***************************************************************************)
JNull == [t |-> "null"]
JBool(b) == [t |-> "bool", b |-> b]
JInt(n) == [t |-> "int", w |-> "i64", n |-> n]
JU64 == [t |-> "int", w |-> "u64", n |-> 0]
JBig == [t |-> "int", w |-> "big", n |-> 0]
JFloat == [t |-> "float"]
JStr(x) == [t |-> "str", s |-> x]
JArr(a) == [t |-> "arr", a |-> a]
JObj(o) == [t |-> "obj", o |-> o]
JEmptyObj == [t |-> "obj", o |-> <<>>]

\* the longest `nodes` array of a generated body
MaxNodes == 2

\* strings handed to GstClient::build
BaseInputs ==
    { <<"http", ":", "//", "localhost", ":", "5000">>,
      <<"HTTP", ":", "//", "LocalHost", ":", "80", "/", "api", "/">>,
      <<"http", ":", "//", "127.0.0.1", ":", "5000", "/", "api">>,
      <<"mailto", ":", "admin">>,
      <<"localhost", ":", "5000">>,
      <<"127.0.0.1", ":", "5000">>,
      <<"//", "localhost">>,
      <<"localhost">>,
      <<>>,
      <<"http", ":", "//">>,
      <<"http", ":", "//", "localhost", ":", "99999">> }

\* paths handed to the verb operations
PipelinesPath == <<"pipelines">>
ApiPaths ==
    { PipelinesPath,
      <<"/", "pipelines">>,
      <<"//">>,
      <<"//", "gstd", ":", "99999">>,
      <<"http", ":", "//", "gstd", "/", "pipelines">> }

Statuses == {200, 204, 404, 500}

\* JSON values standing for one node
GoodNode(name) == JObj([name |-> JStr(name)])
NodeValues ==
    { GoodNode("test_pipeline"),
      JObj([name |-> JStr("p2"), extra |-> JInt(1)]),
      JArr(<<JStr("p3")>>),
      JObj([name |-> JInt(1)]) }

SeqsUpTo(S, n) == UNION { [1..k -> S] : k \in 0..n }

GoodParam ==
    JObj([description |-> JStr("d"), type |-> JStr("gboolean"), access |-> JStr("rw")])

\* JSON values of a property's `value`
ValueValues ==
    { JStr("true"), JStr("1"), JInt(0), JInt(1), JInt(-5), JU64, JBig, JFloat,
      JBool(TRUE), JBool(FALSE), JNull, JArr(<<>>), JEmptyObj }

PropertyWith(value) ==
    JObj([name |-> JStr("is-live"), value |-> value, param |-> GoodParam])

GoodBus ==
    JObj([type |-> JStr("eos"), source |-> JStr("pipe"), timestamp |-> JStr("0:00"),
          seqnum |-> JInt(7), message |-> JStr("m"), debug |-> JStr("dbg")])

PropertiesWith(nodes) ==
    JObj([properties |-> JArr(<<>>), nodes |-> nodes])

\* JSON values of the envelope's `response`
Payloads ==
    { JNull, JStr("x"), JInt(1), JBool(TRUE), JEmptyObj, JArr(<<>>) }
    \cup
    { GoodBus,
      JObj([GoodBus.o EXCEPT !.seqnum = JU64]),
      JObj([GoodBus.o EXCEPT !.seqnum = JStr("7")]),
      JObj([k \in DOMAIN GoodBus.o \ {"debug"} |-> GoodBus.o[k]]),
      JArr(<<JStr("eos"), JStr("pipe"), JStr("0:00"), JInt(7), JStr("m"), JStr("dbg")>>),
      JObj(GoodBus.o @@ [properties |-> JArr(<<>>), nodes |-> JArr(<<GoodNode("p2")>>)]),
      JObj(GoodBus.o @@ [name |-> JStr("is-live"), value |-> JBool(TRUE),
                         param |-> GoodParam]) }
    \cup
    { PropertiesWith(JArr(ns)) : ns \in SeqsUpTo(NodeValues, MaxNodes) }
    \cup
    { PropertiesWith(JNull),
      JObj([properties |-> JArr(<<>>)]),
      JObj([nodes |-> JArr(<<>>)]),
      JObj([properties |-> JStr("x"), nodes |-> JArr(<<>>)]),
      JObj([properties |-> JArr(<<PropertyWith(JInt(1))>>),
            nodes |-> JArr(<<GoodNode("test_pipeline")>>)]),
      JObj([properties |-> JArr(<<PropertyWith(JFloat)>>), nodes |-> JArr(<<>>)]),
      JObj([properties |-> JArr(<<>>), nodes |-> JArr(<<GoodNode("p2")>>),
            name |-> JStr("is-live"), value |-> JInt(1), param |-> GoodParam]),
      JArr(<<JArr(<<>>)>>),
      JArr(<<JArr(<<>>), JArr(<<GoodNode("p2")>>)>>) }
    \cup
    { PropertyWith(v) : v \in ValueValues }
    \cup
    { JObj([name |-> JStr("is-live"), param |-> GoodParam]),
      JObj([name |-> JStr("is-live"), value |-> JBool(TRUE)]),
      JObj([name |-> JInt(1), value |-> JBool(TRUE), param |-> GoodParam]),
      JObj([name |-> JStr("is-live"), value |-> JBool(TRUE),
            param |-> JObj([description |-> JStr("d"), type |-> JStr("gboolean")])]),
      JArr(<<JStr("is-live"), JBool(TRUE), GoodParam>>) }

\* JSON values of the envelope's `code`
CodeValues ==
    { JInt(n) : n \in -1 .. MissingName + 1 }
    \cup { JInt(255), JInt(256), JU64, JBig, JFloat, JStr("0"), JNull, JBool(FALSE) }

Envelope(code, payload) ==
    JObj([code |-> code, description |-> JStr("d"), response |-> payload])

\* bodies of a response
JsonBody(v) == [json |-> TRUE, val |-> v]
NotJson == [json |-> FALSE]
Bodies ==
    { NotJson }
    \cup
    { JsonBody(Envelope(c, p)) :
        c \in CodeValues, p \in {JNull, PropertiesWith(JArr(<<>>)), JStr("x")} }
    \cup
    { JsonBody(JObj([description |-> JStr("d"), response |-> p])) :
        p \in {JNull, JStr("x")} }
    \cup
    { JsonBody(JObj([code |-> c, response |-> JNull])) : c \in {JInt(0), JInt(3)} }
    \cup
    { JsonBody(JObj([code |-> c, description |-> JInt(1), response |-> JNull])) :
        c \in {JInt(0), JInt(3)} }
    \cup
    { JsonBody(JObj([code |-> c, description |-> JStr("d")])) : c \in {JInt(0), JInt(3)} }
    \cup
    { JsonBody(Envelope(c, p)) : c \in {JInt(0), JInt(3)}, p \in Payloads }
    \cup
    { JsonBody(v) :
        v \in { JNull, JStr("x"), JEmptyObj,
                JArr(<<JInt(0), JStr("d"), JNull>>),
                JArr(<<JInt(3), JStr("d"), JNull>>),
                JArr(<<JInt(19), JStr("d"), JNull>>),
                JArr(<<JInt(0), JStr("d")>>),
                JArr(<<JInt(0), JStr("d"), JNull, JNull>>) } }

\* what the transport hands back for one request
TransportFailure == [fail |-> TRUE]
RawResponse(status, body) == [fail |-> FALSE, status |-> status, body |-> body]
Outcomes ==
    { TransportFailure } \cup { RawResponse(st, b) : st \in Statuses, b \in Bodies }

(***************************************************************************)
(* The state.                                                              *)
(***************************************************************************)
\* the number of callers sharing the client
NumCallers == 2
Callers == 1 .. NumCallers

VARIABLES
    build,      \* the call of GstClient::build: its argument and its result
    client,     \* the GstClient constructed, if any
    pc,         \* per caller: "idle", "inflight", "process", "done"
    call,       \* per caller: the operation under way and the request sent
    sent,       \* per caller: the HTTP requests its call has sent
    resp,       \* per caller: what the transport handed back to its call
    result,     \* per caller: what its call returned
    net         \* the HTTP requests put on the network, in all

vars == <<build, client, pc, call, sent, resp, result, net>>

NotBuilt == [done |-> FALSE]
NoClient == [built |-> FALSE]
NoCall == [op |-> "none"]
NoResp == [got |-> FALSE]
Pending == [pending |-> TRUE]

Init ==
    /\ build = NotBuilt
    /\ client = NoClient
    /\ pc = [c \in Callers |-> "idle"]
    /\ call = [c \in Callers |-> NoCall]
    /\ sent = [c \in Callers |-> 0]
    /\ resp = [c \in Callers |-> NoResp]
    /\ result = [c \in Callers |-> Pending]
    /\ net = 0

\* a faulty variant of Build: a string that does not parse falls back on the default
\* base address instead of failing
BuildOrDefault(s) ==
    /\ ~build.done
    /\ build' = [done |-> TRUE, arg |-> s, res |-> [ok |-> TRUE]]
    /\ client' = [built |-> TRUE,
                  base_url |-> IF UrlParse(s).ok THEN UrlParse(s).url
                               ELSE UrlParse(<<"http", ":", "//", "127.0.0.1",
                                               ":", "5000">>).url]
    /\ UNCHANGED <<pc, call, sent, resp, result, net>>

\* GstClient::build
Build(s) ==
    /\ ~build.done
    /\ IF UrlParse(s).ok
       THEN /\ client' = [built |-> TRUE, base_url |-> UrlParse(s).url]
            /\ build' = [done |-> TRUE, arg |-> s, res |-> [ok |-> TRUE]]
       ELSE /\ client' = client
            /\ build' = [done |-> TRUE, arg |-> s, res |-> Err("IncorrectBaseUrl")]
    /\ UNCHANGED <<pc, call, sent, resp, result, net>>

\* the body the four verb operations share: join the path to the base
\* address, then send one request
SendVerb(c, op, method, url) ==
    /\ client.built
    /\ pc[c] = "idle"
    /\ IF UrlJoin(client.base_url, url).ok
       THEN /\ call' = [call EXCEPT ![c] = [op |-> op, method |-> method, path |-> url,
                                            url |-> UrlJoin(client.base_url, url).url]]
            /\ sent' = [sent EXCEPT ![c] = @ + 1]
            /\ net' = net + 1
            /\ pc' = [pc EXCEPT ![c] = "inflight"]
            /\ UNCHANGED result
       ELSE /\ call' = [call EXCEPT ![c] = [op |-> op, method |-> method, path |-> url]]
            /\ result' = [result EXCEPT ![c] = Err("IncorrectApiUrl")]
            /\ pc' = [pc EXCEPT ![c] = "done"]
            /\ UNCHANGED <<sent, net>>
    /\ UNCHANGED <<build, client, resp>>

\* GstClient::get, up to the await of send()
Get(c, url) == SendVerb(c, "get", "GET", url)

\* GstClient::post, up to the await of send()
Post(c, url) == SendVerb(c, "post", "POST", url)

\* GstClient::put, up to the await of send()
Put(c, url) == SendVerb(c, "put", "PUT", url)

\* GstClient::delete, up to the await of send()
Delete(c, url) == SendVerb(c, "delete", "DELETE", url)

\* GstClient::pipelines, up to the await of get("pipelines")
Pipelines(c) == SendVerb(c, "pipelines", "GET", PipelinesPath)

\* a faulty variant of SendCompletes: a failed send is tried once more
SendCompletesRetry(c, out) ==
    /\ pc[c] = "inflight"
    /\ IF out.fail /\ sent[c] < 2
       THEN /\ sent' = [sent EXCEPT ![c] = @ + 1]
            /\ net' = net + 1
            /\ UNCHANGED <<pc, resp, result>>
       ELSE /\ resp' = [resp EXCEPT ![c] = out]
            /\ UNCHANGED <<sent, net>>
            /\ IF out.fail
               THEN /\ result' = [result EXCEPT ![c] = Err("RequestFailed")]
                    /\ pc' = [pc EXCEPT ![c] = "done"]
               ELSE IF call[c].op = "pipelines"
               THEN /\ pc' = [pc EXCEPT ![c] = "process"]
                    /\ UNCHANGED result
               ELSE /\ result' = [result EXCEPT ![c] = OkRaw(out)]
                    /\ pc' = [pc EXCEPT ![c] = "done"]
    /\ UNCHANGED <<build, client, call>>

\* a faulty variant of SendCompletes: the client keeps one response slot for all its
\* calls, so a call may be handed what another call received
SendCompletesShared(c, out) ==
    /\ pc[c] = "inflight"
    /\ \E d \in Callers :
         LET got == IF resp[d] # NoResp THEN resp[d] ELSE out
         IN  /\ resp' = [resp EXCEPT ![c] = out]
             /\ IF got.fail
                THEN /\ result' = [result EXCEPT ![c] = Err("RequestFailed")]
                     /\ pc' = [pc EXCEPT ![c] = "done"]
                ELSE IF call[c].op = "pipelines"
                THEN /\ pc' = [pc EXCEPT ![c] = "process"]
                     /\ UNCHANGED result
                ELSE /\ result' = [result EXCEPT ![c] = OkRaw(got)]
                     /\ pc' = [pc EXCEPT ![c] = "done"]
    /\ UNCHANGED <<build, client, call, sent, net>>

\* send().await.map_err(Error::RequestFailed): the transport hands back its
\* outcome; a verb operation returns it, pipelines goes on to process_resp
SendCompletes(c, out) ==
    /\ pc[c] = "inflight"
    /\ resp' = [resp EXCEPT ![c] = out]
    /\ IF out.fail
       THEN /\ result' = [result EXCEPT ![c] = Err("RequestFailed")]
            /\ pc' = [pc EXCEPT ![c] = "done"]
       ELSE IF call[c].op = "pipelines"
       THEN /\ pc' = [pc EXCEPT ![c] = "process"]
            /\ UNCHANGED result
       ELSE /\ result' = [result EXCEPT ![c] = OkRaw(out)]
            /\ pc' = [pc EXCEPT ![c] = "done"]
    /\ UNCHANGED <<build, client, call, sent, net>>

\* GstClient::pipelines: self.process_resp(resp).await
PipelinesProcessResp(c) ==
    /\ pc[c] = "process"
    /\ result' = [result EXCEPT ![c] = ProcessResp(resp[c])]
    /\ pc' = [pc EXCEPT ![c] = "done"]
    /\ UNCHANGED <<build, client, call, sent, resp, net>>

(***************************************************************************)
(* Spec: one caller uses the client, with every input.                     *)
(***************************************************************************)
Next ==
    \/ \E s \in BaseInputs : Build(s)
    \/ \E url \in ApiPaths : Get(1, url)
    \/ \E url \in ApiPaths : Post(1, url)
    \/ \E url \in ApiPaths : Put(1, url)
    \/ \E url \in ApiPaths : Delete(1, url)
    \/ Pipelines(1)
    \/ \E out \in Outcomes : SendCompletes(1, out)
    \/ PipelinesProcessResp(1)

Spec == Init /\ [][Next]_vars

(***************************************************************************)
(* SpecConc: every caller uses the one client, their calls interleaved at  *)
(* the awaits, over a smaller set of inputs.                               *)
(***************************************************************************)
ConcBaseInputs ==
    { <<"http", ":", "//", "localhost", ":", "5000">>,
      <<"mailto", ":", "admin">> }

ConcOutcomes ==
    { TransportFailure,
      RawResponse(200, JsonBody(Envelope(JInt(0), PropertiesWith(JArr(<<GoodNode("test_pipeline")>>))))),
      RawResponse(200, JsonBody(Envelope(JInt(3), JNull))),
      RawResponse(200, NotJson),
      RawResponse(404, JsonBody(Envelope(JInt(0), JNull))) }

NextConc ==
    \/ \E s \in ConcBaseInputs : Build(s)
    \/ \E c \in Callers :
         \/ Get(c, PipelinesPath)
         \/ Post(c, PipelinesPath)
         \/ Put(c, PipelinesPath)
         \/ Delete(c, PipelinesPath)
         \/ Pipelines(c)
         \/ \E out \in ConcOutcomes : SendCompletes(c, out)
         \/ PipelinesProcessResp(c)

SpecConc == Init /\ [][NextConc]_vars

(***************************************************************************)
(* Properties.                                                             *)
(***************************************************************************)
\* caller c's call of pipelines() has returned
PipelinesDone(c) == pc[c] = "done" /\ call[c].op = "pipelines"

\* caller c's call of pipelines() has returned after a response arrived
PipelinesAnswered(c) == PipelinesDone(c) /\ resp[c] # NoResp /\ ~resp[c].fail

\* ... whose status is success-class and whose body is JSON of the
\* envelope's shape (an object, or an array of at most three elements)
HasEnvelope(c) ==
    /\ PipelinesAnswered(c)
    /\ IsSuccess(resp[c].status)
    /\ resp[c].body.json
    /\ IsStructShape(resp[c].body.val, 3)

WireHas(c, key, idx) == HasField(resp[c].body.val, key, idx)
Wire(c, key, idx) == Field(resp[c].body.val, key, idx)

\* the body's code is the integer k
WireCodeIs(c, k) == WireHas(c, "code", 1) /\ Wire(c, "code", 1) = JInt(k)

\* all of the envelope but its code decodes
RestDecodes(c) ==
    /\ WireHas(c, "description", 2) /\ Wire(c, "description", 2).t = "str"
    /\ WireHas(c, "response", 3) /\ DeResponseT(Wire(c, "response", 3)).ok

\* the body is an envelope with code Success and a string description that
\* carries a payload
SuccessEnvelope(c) ==
    /\ HasEnvelope(c)
    /\ WireCodeIs(c, Success)
    /\ WireHas(c, "description", 2) /\ Wire(c, "description", 2).t = "str"
    /\ WireHas(c, "response", 3)

ErrorKinds == {"IncorrectApiUrl", "RequestFailed", "BadStatus", "BadBody", "GstdError"}

\* C1: every finished call of pipelines() returned either Ok(envelope), and
\* then envelope.code = Success, or one error of exactly one of the kinds
\* IncorrectApiUrl, RequestFailed, BadStatus, BadBody, GstdError, whatever
\* the transport outcome, the HTTP status and the body were.
C1_OkOrOneErrorKind ==
    \A c \in Callers : PipelinesDone(c) =>
        \/ /\ result[c].ok
           /\ DOMAIN result[c] = {"ok", "env"}
           /\ result[c].env.code = Success
        \/ /\ ~result[c].ok
           /\ result[c].err \in ErrorKinds

C1_Witness ==
    \E c \in Callers : PipelinesDone(c) /\ result[c].ok /\ result[c].env.code = Success

\* C2: a response with a non-2xx status makes pipelines() fail with
\* BadStatus(status) whatever the body is: valid envelope or no JSON at all.
C2_BadStatusWhateverBody ==
    \A c \in Callers :
        (PipelinesAnswered(c) /\ ~IsSuccess(resp[c].status))
            => result[c] = BadStatus(resp[c].status)

C2_Witness ==
    \E c \in Callers :
        /\ PipelinesAnswered(c) /\ ~IsSuccess(resp[c].status)
        /\ Json(resp[c].body).ok /\ Json(resp[c].body).v.code = Success
        /\ result[c] = BadStatus(resp[c].status)

\* C3 as claimed: a 2xx response whose body carries a code k in 1..18 (and a
\* string description) fails with GstdError(k) for every content of the
\* `response` payload field.
C3_GstdErrorWhateverPayload ==
    \A c \in Callers : \A k \in (ResponseCode \ {Success}) :
        ( /\ HasEnvelope(c) /\ WireCodeIs(c, k)
          /\ WireHas(c, "description", 2) /\ Wire(c, "description", 2).t = "str"
          /\ WireHas(c, "response", 3) )
            => result[c] = GstdError(k)

\* C3 as amended: a 2xx response whose body carries a code k in 1..18 fails
\* with GstdError(k) for every payload that matches one of the variants
\* Bus, Properties, Property (beside a string description); when the
\* payload matches none, or is missing, it fails with BadBody instead.
C3_GstdErrorWhenBodyDecodes ==
    \A c \in Callers : \A k \in (ResponseCode \ {Success}) :
        (HasEnvelope(c) /\ WireCodeIs(c, k)) =>
            result[c] = IF RestDecodes(c) THEN GstdError(k) ELSE Err("BadBody")

C3_Witness ==
    \E c \in Callers :
        /\ HasEnvelope(c) /\ WireCodeIs(c, 3) /\ RestDecodes(c)
        /\ Wire(c, "response", 3).t = "obj"
        /\ result[c] = GstdError(3)

\* the first of Bus, Properties, Property that payload p matches
FirstMatch(p) ==
    IF DeOptionBus(p).ok THEN "Bus"
    ELSE IF DeProperties(p).ok THEN "Properties"
    ELSE IF DeProperty(p).ok THEN "Property"
    ELSE "none"

\* C4: the payload decodes to the first of Bus, Properties, Property that it
\* matches (null to the absent Bus, a bus-message object to a present one),
\* and a payload matching none of them fails with BadBody.
C4_FirstMatchingVariant ==
    \A c \in Callers : SuccessEnvelope(c) =>
        LET p == Wire(c, "response", 3)
        IN  IF FirstMatch(p) = "none"
            THEN result[c] = Err("BadBody")
            ELSE /\ result[c].ok
                 /\ result[c].env.response.variant = FirstMatch(p)
                 /\ (p.t = "null") =>
                        result[c].env.response.bus = [some |-> FALSE]
                 /\ (p.t # "null" /\ FirstMatch(p) = "Bus") =>
                        /\ result[c].env.response.bus.some
                        /\ result[c].env.response.bus.bus = DeBus(p).v

C4_Witness ==
    \E c \in Callers :
        /\ SuccessEnvelope(c)
        /\ DeOptionBus(Wire(c, "response", 3)).ok
        /\ DeProperties(Wire(c, "response", 3)).ok
        /\ result[c].ok
        /\ result[c].env.response.variant = "Bus"

\* C5: build(s) succeeds exactly when s parses as a URL, the client's base
\* address is then the URL parsed from s, which parses back from its own
\* serialization; otherwise build fails with IncorrectBaseUrl and there is
\* no client; and no request is on the network before a call is made.
C5_BuildParsesBaseUrl ==
    build.done =>
        /\ build.res.ok <=> UrlParse(build.arg).ok
        /\ build.res.ok =>
              /\ client.built
              /\ client.base_url = UrlParse(build.arg).url
              /\ UrlParse(UrlToString(client.base_url)) = UrlOk(client.base_url)
        /\ ~build.res.ok =>
              /\ build.res = Err("IncorrectBaseUrl")
              /\ client = NoClient
        /\ (\A c \in Callers : pc[c] = "idle") => net = 0

C5_Witness ==
    /\ build.done /\ build.res.ok
    /\ UrlToString(client.base_url) # build.arg
    /\ net = 0

\* payload p has the shape of Properties and not that of Bus
IsPropertiesPayload(p) ==
    /\ IsStructShape(p, 2)
    /\ HasField(p, "properties", 1) /\ DeVecProperty(Field(p, "properties", 1)).ok
    /\ HasField(p, "nodes", 2) =>
          /\ Field(p, "nodes", 2).t = "arr"
          /\ \A i \in 1..Len(Field(p, "nodes", 2).a) :
                DeNode(Field(p, "nodes", 2).a[i]).ok
    /\ ~DeOptionBus(p).ok

\* the `nodes` array of payload p as sent, empty when there is none
WireNodes(p) == IF HasField(p, "nodes", 2) THEN Field(p, "nodes", 2).a ELSE <<>>

\* C6: a success envelope with a Properties payload decodes to a node list
\* of the length, order and names of the body's `nodes` array; an empty
\* array and a missing `nodes` field both give the empty list.
C6_NodesAsSent ==
    \A c \in Callers :
        (SuccessEnvelope(c) /\ IsPropertiesPayload(Wire(c, "response", 3))) =>
            LET ns == WireNodes(Wire(c, "response", 3))
            IN  /\ result[c].ok
                /\ result[c].env.response.variant = "Properties"
                /\ result[c].env.response.props.nodes =
                      [i \in 1..Len(ns) |-> [name |-> Field(ns[i], "name", 1).s]]

C6_Witness ==
    \E c \in Callers :
        /\ SuccessEnvelope(c) /\ IsPropertiesPayload(Wire(c, "response", 3))
        /\ Len(WireNodes(Wire(c, "response", 3))) = 2
        /\ result[c].ok
        /\ result[c].env.response.props.nodes[1] # result[c].env.response.props.nodes[2]

\* payload p has the shape of Property, whatever its value is, and matches
\* neither Bus nor Properties
IsPropertyPayload(p) ==
    /\ IsStructShape(p, 3)
    /\ HasField(p, "name", 1) /\ DeString(Field(p, "name", 1)).ok
    /\ HasField(p, "value", 2)
    /\ HasField(p, "param", 3) /\ DeParam(Field(p, "param", 3)).ok
    /\ ~DeOptionBus(p).ok
    /\ ~DeProperties(p).ok

\* the result is Ok with a Property payload whose value is val
ReturnsValue(c, val) ==
    /\ result[c].ok
    /\ result[c].env.response.variant = "Property"
    /\ result[c].env.response.prop.value = val

\* C7 as claimed: a property's value decodes to the variant of its JSON
\* type: a string to String, an integer to Integer, a boolean to Bool; a
\* value of any other JSON type matches no variant.
C7_VariantOfWireType ==
    \A c \in Callers :
        (SuccessEnvelope(c) /\ IsPropertyPayload(Wire(c, "response", 3))) =>
            LET w == Field(Wire(c, "response", 3), "value", 2)
            IN  CASE w.t = "str" -> ReturnsValue(c, [variant |-> "String", s |-> w.s])
                  [] w.t = "int" -> result[c].ok
                                    /\ result[c].env.response.variant = "Property"
                                    /\ result[c].env.response.prop.value.variant = "Integer"
                  [] w.t = "bool" -> ReturnsValue(c, [variant |-> "Bool", b |-> w.b])
                  [] OTHER -> result[c] = Err("BadBody")

\* C7 as amended: a string decodes to String, a boolean to Bool, an integer
\* within the signed 64-bit range to Integer; an integer outside that range,
\* like a value of any other JSON type, matches no variant.
C7_VariantOfWireTypeI64 ==
    \A c \in Callers :
        (SuccessEnvelope(c) /\ IsPropertyPayload(Wire(c, "response", 3))) =>
            LET w == Field(Wire(c, "response", 3), "value", 2)
            IN  CASE w.t = "str" -> ReturnsValue(c, [variant |-> "String", s |-> w.s])
                  [] w.t = "int" /\ w.w = "i64" ->
                        ReturnsValue(c, [variant |-> "Integer", n |-> w.n])
                  [] w.t = "bool" -> ReturnsValue(c, [variant |-> "Bool", b |-> w.b])
                  [] OTHER -> result[c] = Err("BadBody")

C7_Witness ==
    \E c \in Callers :
        /\ SuccessEnvelope(c) /\ IsPropertyPayload(Wire(c, "response", 3))
        /\ Field(Wire(c, "response", 3), "value", 2) = JBool(TRUE)
        /\ ReturnsValue(c, [variant |-> "Bool", b |-> TRUE])

\* what a call returns when it runs alone: from its own path, its own
\* transport outcome and nothing else
LoneResult(c) ==
    IF ~UrlJoin(UrlParse(build.arg).url, call[c].path).ok THEN Err("IncorrectApiUrl")
    ELSE IF resp[c].fail THEN Err("RequestFailed")
    ELSE IF call[c].op = "pipelines" THEN ProcessResp(resp[c])
    ELSE OkRaw(resp[c])

\* C8: under every interleaving of the callers' calls the base address
\* stays the one build parsed, every call that is under way can take its
\* next step whatever the other calls are doing, and every finished call
\* returned what it returns alone on its own transport outcome.
C8_CallsIndependent ==
    /\ client.built => client.base_url = UrlParse(build.arg).url
    /\ \A c \in Callers :
          /\ (client.built /\ pc[c] = "idle") => ENABLED Pipelines(c)
          /\ pc[c] = "inflight" => \A out \in ConcOutcomes : ENABLED SendCompletes(c, out)
          /\ pc[c] = "process" => ENABLED PipelinesProcessResp(c)
          /\ pc[c] = "done" => result[c] = LoneResult(c)

C8_Witness ==
    \E c, d \in Callers :
        /\ c # d
        /\ pc[c] = "done" /\ pc[d] = "process"
        /\ resp[c] # NoResp /\ resp[c] # resp[d]
        /\ result[c] = LoneResult(c)

RECURSIVE SumOver(_, _)
SumOver(f, S) ==
    IF S = {} THEN 0
    ELSE LET x == CHOOSE y \in S : TRUE IN f[x] + SumOver(f, S \ {x})

\* C9: a call sends at most one request: none when joining the path to the
\* base fails, and then it returns IncorrectApiUrl; otherwise exactly one,
\* returning RequestFailed when the send fails and, for a verb operation,
\* the raw response when it does not; no failure leads to another send.
C9_AtMostOneSend ==
    /\ net = SumOver(sent, Callers)
    /\ \A c \in Callers :
          /\ sent[c] <= 1
          /\ pc[c] = "idle" => sent[c] = 0
          /\ pc[c] \in {"inflight", "process"} => sent[c] = 1
          /\ pc[c] = "done" =>
                IF ~UrlJoin(client.base_url, call[c].path).ok
                THEN result[c] = Err("IncorrectApiUrl") /\ sent[c] = 0
                ELSE /\ sent[c] = 1
                     /\ resp[c].fail => result[c] = Err("RequestFailed")
                     /\ (~resp[c].fail /\ call[c].op # "pipelines")
                            => result[c] = OkRaw(resp[c])
                     /\ (~resp[c].fail /\ call[c].op = "pipelines")
                            => result[c] = ProcessResp(resp[c])

C9_Witness ==
    \E c \in Callers :
        /\ pc[c] = "done" /\ call[c].op = "post"
        /\ result[c] = Err("RequestFailed") /\ sent[c] = 1 /\ net = 1

\* C10: the codes are exactly 0..18; a 2xx body whose code is missing or is
\* not an integer in 0..18 fails with BadBody, so a GstdError always carries
\* a code in 1..18.
C10_ClosedCodes ==
    /\ ResponseCode = 0 .. 18
    /\ \A c \in Callers :
          /\ (HasEnvelope(c) /\ ~\E k \in 0 .. 18 : WireCodeIs(c, k))
                => result[c] = Err("BadBody")
          /\ (PipelinesDone(c) /\ ~result[c].ok /\ result[c].err = "GstdError")
                => result[c].code \in 1 .. 18

C10_Witness ==
    \E c \in Callers :
        /\ HasEnvelope(c) /\ WireCodeIs(c, 19) /\ RestDecodes(c)
        /\ result[c] = Err("BadBody")

====
